---- MODULE Spec2Model ----
(***************************************************************************)
(* The log tools of src/tools/logs.py: six coroutines registered on a      *)
(* FastMCP instance, each of which validates min_level, builds a query     *)
(* mapping, awaits one request on the shared httpx.AsyncClient, raises on  *)
(* an error status and returns the body (decoded JSON or text).            *)
(*                                                                         *)
(* An invocation runs from the call up to its `await client.get/delete`    *)
(* in one step (a coroutine is not preempted before its first await), and  *)
(* from the arrival of the response to its return or raise in a second.    *)
(*                                                                         *)
(* Record fields and the elements of set literals are written in the order *)
(* of their first appearance in this module, which is the order TLC keeps  *)
(* them in, so that no literal is reordered while several workers read it. *)
(***************************************************************************)
EXTENDS Integers, Sequences, FiniteSets, TLC

VARIABLES
    tools,      \* names registered on the FastMCP instance
    pc,         \* pc[c]: "idle", "awaiting" (suspended in the await), "done"
    call,       \* call[c]: the tool invoked and the arguments the caller gave
    sent,       \* sent[c]: the requests invocation c handed to the client
    response,   \* response[c]: what the client gave back to the await
    outcome     \* outcome[c]: pending, returned (a value) or raised (an error)

vars == <<tools, pc, call, sent, response, outcome>>

\* Number of invocation slots.
NumCalls == 2
Calls == 1..NumCalls

(***************************************************************************)
(* Python values.  Optional[T] is None or a value: <<>> or <<v>>.          *)
(***************************************************************************)
None == <<>>
Some(v) == <<v>>

\* a variant of IsNotNone: `if attempt:` in place of `if attempt is not None:`
IsNotNone_Truthiness(opt) == opt # None /\ opt[1] # 0

\* `x is not None`
IsNotNone(opt) == opt # None

\* a variant of Truthy: `if x is not None:` in place of `if x:`
Truthy_NotNone(opt) == opt # None

\* `if x:` on an Optional[str]: None and "" are both falsy
Truthy(opt) == opt # None /\ opt[1] # ""

\* d[key] = item on a dict
SetItem(d, key, item) ==
    [k \in DOMAIN d \cup {key} |-> IF k = key THEN item ELSE d[k]]

\* {}
EmptyDict == <<>>

\* the set every tool that takes min_level builds first
valid_levels == {"ERROR", "WARN", "INFO", "DEBUG", "TRACE"}

(***************************************************************************)
(* The values callers pass.  Every optional string ranges over absent, the *)
(* empty string and a value; a required identifier over empty and a value. *)
(***************************************************************************)
OptStr(v) == {None, Some(""), Some(v)}

ExecutionIds == {"", "abc123"}
MinLevels    == {None, Some(""), Some("INFO"), Some("BOGUS")}
Attempts     == {None, Some(0), Some(1)}
Pages        == {None, Some(0), Some(2)}
Sizes        == {None, Some(10)}

ExecutionArgs ==
    [execution_id : ExecutionIds, min_level : MinLevels,
     task_run_id : OptStr("tr1"), task_id : OptStr("t1"), attempt : Attempts]

SearchArgs ==
    [min_level : MinLevels, query : OptStr("hi"), namespace : OptStr("n"),
     flow_id : OptStr("f"), start_date : OptStr("2024-01-01T00:00:00Z"),
     end_date : OptStr("2024-01-31T23:59:59Z"), page : Pages, size : Sizes]

FlowArgs == [namespace : {"", "n"}, flow_id : {"", "f"}, trigger_id : OptStr("trg")]

FollowArgs == [execution_id : ExecutionIds, min_level : MinLevels]

\* a parameter with a default in the signature: the default when the caller omits it
Default(opt, d) == IF opt = None THEN d ELSE opt[1]

DefaultPage == 1
DefaultSize == 25

(***************************************************************************)
(* min_level validation (the same four lines in five of the six tools).    *)
(***************************************************************************)
\* the code points of the strings that get sorted
CodePoints(s) ==
    CASE s = "DEBUG" -> <<68, 69, 66, 85, 71>>
      [] s = "ERROR" -> <<69, 82, 82, 79, 82>>
      [] s = "INFO"  -> <<73, 78, 70, 79>>
      [] s = "TRACE" -> <<84, 82, 65, 67, 69>>
      [] s = "WARN"  -> <<87, 65, 82, 78>>

\* str.__lt__: lexicographic on code points, a proper prefix is smaller
RECURSIVE SeqLess(_, _)
SeqLess(a, b) ==
    IF b = <<>> THEN FALSE
    ELSE IF a = <<>> THEN TRUE
    ELSE IF a[1] # b[1] THEN a[1] < b[1]
    ELSE SeqLess(Tail(a), Tail(b))

StrLess(s, t) == SeqLess(CodePoints(s), CodePoints(t))

\* The orders in which iterating the set valid_levels can yield its members
\* (str hashes are randomised per process, so every order is possible).
IterationOrders ==
    { o \in [1..Cardinality(valid_levels) -> valid_levels] :
        \A i, j \in DOMAIN o : o[i] = o[j] => i = j }

\* one insertion step of the sort: x goes before the first larger member
RECURSIVE Insert(_, _)
Insert(x, ys) ==
    IF ys = <<>> THEN <<x>>
    ELSE IF StrLess(x, ys[1]) THEN <<x>> \o ys
    ELSE <<ys[1]>> \o Insert(x, Tail(ys))

\* `', '.join(valid_levels)`: the members in iteration order
sorted_IterationOrder(xs) == xs

\* sorted(iterable of str): ascending list of what the iteration yields
RECURSIVE sorted(_)
sorted(xs) ==
    IF xs = <<>> THEN <<>>
    ELSE Insert(xs[Len(xs)], sorted(SubSeq(xs, 1, Len(xs) - 1)))

\* sep.join(list of str)
RECURSIVE join(_, _)
join(sep, xs) ==
    IF xs = <<>> THEN ""
    ELSE IF Len(xs) = 1 THEN xs[1]
    ELSE xs[1] \o sep \o join(sep, Tail(xs))

\* a variant of InvalidLevel: the `not` of `not in` left out
InvalidLevel_Inverted(min_level) ==
    min_level # None /\ min_level[1] # "" /\ min_level[1] \in valid_levels

\* `min_level and min_level not in valid_levels`
InvalidLevel(min_level) == Truthy(min_level) /\ min_level[1] \notin valid_levels

\* the f-string of the ValueError, kept as its pieces: literal, value, literal, list
InvalidLevelMessage(min_level, order) ==
    << "Invalid min_level '", min_level[1], "'. Must be one of: ",
       join(", ", sorted(order)) >>

ValueError(min_level, order) ==
    [type |-> "ValueError", message |-> InvalidLevelMessage(min_level, order)]

(***************************************************************************)
(* The backend and the client.  A response is a status code and a body; an *)
(* await can also end in a transport error, with no response at all.       *)
(***************************************************************************)
StatusCodes == {200, 204, 301, 404, 500}

ArrayBody  == "[{\"message\":\"hi\",\"level\":\"INFO\"}]"
SearchBody == "{\"results\":[],\"total\":0}"
CountBody  == "{\"count\":3}"
TextBody   == "2024-01-01T00:00:00Z INFO hi"
Contents   == {"", ArrayBody, SearchBody, CountBody, TextBody}

TransportFailure == [kind |-> "transport_error"]
Responses ==
    [kind : {"response"}, status_code : StatusCodes, content : Contents]
Replies == Responses \cup {TransportFailure}

\* client.get(url, params=params) / client.delete(url, params=params)
client_get(url, q) == [method |-> "GET", path |-> url, params |-> q]
client_delete(url, q) == [method |-> "DELETE", path |-> url, params |-> q]

\* a variant of is_success: only 4xx and 5xx count as errors
is_success_Below400(status_code) == status_code < 400

\* httpx Response.is_success: a 2xx status
is_success(status_code) == 200 <= status_code /\ status_code <= 299

\* outcomes of an invocation
Pending == [kind |-> "pending"]
Returned(v) == [kind |-> "returned", value |-> v]
Raised(e) == [kind |-> "raised", error |-> e]

HTTPStatusError(resp) ==
    [type |-> "HTTPStatusError", status_code |-> resp.status_code,
     content |-> resp.content]

\* json.loads on the modelled bodies: the decoded value, tagged with its JSON
\* type (a list keeps its items, a dict its members); other text is not JSON
JsonDecode(content) ==
    CASE content = ArrayBody ->
            [kind |-> "array", items |-> <<[message |-> "hi", level |-> "INFO"]>>]
      [] content = SearchBody ->
            [kind |-> "object", members |-> [results |-> <<>>, total |-> 0]]
      [] content = CountBody ->
            [kind |-> "object", members |-> [count |-> 3]]
      [] OTHER -> [kind |-> "invalid"]

\* a variant of json: a single object is normalised to a one-item list
json_Normalized(resp) ==
    LET v == JsonDecode(resp.content)
    IN  IF v.kind = "invalid" THEN Raised([type |-> "JSONDecodeError"])
        ELSE IF v.kind = "object"
             THEN Returned([kind |-> "array", items |-> <<v.members>>])
        ELSE Returned(v)

\* resp.json(): the decoded body, or JSONDecodeError when the body is not JSON
json(resp) ==
    LET v == JsonDecode(resp.content)
    IN  IF v.kind = "invalid" THEN Raised([type |-> "JSONDecodeError"])
        ELSE Returned(v)

\* resp.text: the body as a string, not parsed
text(resp) == Returned([kind |-> "text", chars |-> resp.content])

\* {"status": "deleted"}
Deleted == [kind |-> "object", members |-> [status |-> "deleted"]]

\* a variant of json_or_deleted: `return resp.json()`, without the fallback
json_or_deleted_NoFallback(resp) == json(resp)

\* `resp.json() if resp.content else {"status": "deleted"}`
json_or_deleted(resp) ==
    IF resp.content # "" THEN json(resp) ELSE Returned(Deleted)

\* what the statements after `resp = await ...` produce: the await re-raises a
\* transport error, raise_for_status raises unless 2xx, else the return value
AfterAwait(reply, returned) ==
    IF reply.kind = "transport_error" THEN Raised([type |-> "TransportError"])
    ELSE IF ~ is_success(reply.status_code) THEN Raised(HTTPStatusError(reply))
    ELSE returned

(***************************************************************************)
(* The query mapping each tool builds, statement by statement.             *)
(***************************************************************************)
get_execution_logs_params(min_level, task_run_id, task_id, attempt) ==
    LET p0 == EmptyDict
        p1 == IF Truthy(min_level) THEN SetItem(p0, "minLevel", min_level[1]) ELSE p0
        p2 == IF Truthy(task_run_id) THEN SetItem(p1, "taskRunId", task_run_id[1]) ELSE p1
        p3 == IF Truthy(task_id) THEN SetItem(p2, "taskId", task_id[1]) ELSE p2
        p4 == IF IsNotNone(attempt) THEN SetItem(p3, "attempt", attempt[1]) ELSE p3
    IN  p4

download_execution_logs_params(min_level, task_run_id, task_id, attempt) ==
    LET p0 == EmptyDict
        p1 == IF Truthy(min_level) THEN SetItem(p0, "minLevel", min_level[1]) ELSE p0
        p2 == IF Truthy(task_run_id) THEN SetItem(p1, "taskRunId", task_run_id[1]) ELSE p1
        p3 == IF Truthy(task_id) THEN SetItem(p2, "taskId", task_id[1]) ELSE p2
        p4 == IF IsNotNone(attempt) THEN SetItem(p3, "attempt", attempt[1]) ELSE p3
    IN  p4

\* a variant of search_logs_params: page and size added like the filters,
\* `if page:` and `if size:`
search_logs_params_OptionalPaging(query, namespace, flow_id, min_level, start_date, end_date, page, size) ==
    LET p0 == EmptyDict
        pa == IF page # 0 THEN SetItem(p0, "page", page) ELSE p0
        pb == IF size # 0 THEN SetItem(pa, "size", size) ELSE pa
        p1 == IF Truthy(query) THEN SetItem(pb, "q", query[1]) ELSE pb
        p2 == IF Truthy(namespace) THEN SetItem(p1, "namespace", namespace[1]) ELSE p1
        p3 == IF Truthy(flow_id) THEN SetItem(p2, "flowId", flow_id[1]) ELSE p2
        p4 == IF Truthy(min_level) THEN SetItem(p3, "minLevel", min_level[1]) ELSE p3
        p5 == IF Truthy(start_date) THEN SetItem(p4, "startDate", start_date[1]) ELSE p4
        p6 == IF Truthy(end_date) THEN SetItem(p5, "endDate", end_date[1]) ELSE p5
    IN  p6

search_logs_params(query, namespace, flow_id, min_level, start_date, end_date, page, size) ==
    LET p0 == [page |-> page, size |-> size]
        p1 == IF Truthy(query) THEN SetItem(p0, "q", query[1]) ELSE p0
        p2 == IF Truthy(namespace) THEN SetItem(p1, "namespace", namespace[1]) ELSE p1
        p3 == IF Truthy(flow_id) THEN SetItem(p2, "flowId", flow_id[1]) ELSE p2
        p4 == IF Truthy(min_level) THEN SetItem(p3, "minLevel", min_level[1]) ELSE p3
        p5 == IF Truthy(start_date) THEN SetItem(p4, "startDate", start_date[1]) ELSE p4
        p6 == IF Truthy(end_date) THEN SetItem(p5, "endDate", end_date[1]) ELSE p5
    IN  p6

delete_execution_logs_params(min_level, task_run_id, task_id, attempt) ==
    LET p0 == EmptyDict
        p1 == IF Truthy(min_level) THEN SetItem(p0, "minLevel", min_level[1]) ELSE p0
        p2 == IF Truthy(task_run_id) THEN SetItem(p1, "taskRunId", task_run_id[1]) ELSE p1
        p3 == IF Truthy(task_id) THEN SetItem(p2, "taskId", task_id[1]) ELSE p2
        p4 == IF IsNotNone(attempt) THEN SetItem(p3, "attempt", attempt[1]) ELSE p3
    IN  p4

delete_flow_logs_params(trigger_id) ==
    LET p0 == EmptyDict
        p1 == IF Truthy(trigger_id) THEN SetItem(p0, "triggerId", trigger_id[1]) ELSE p0
    IN  p1

follow_execution_logs_params(min_level) ==
    LET p0 == EmptyDict
        p1 == IF Truthy(min_level) THEN SetItem(p0, "minLevel", min_level[1]) ELSE p0
    IN  p1

(***************************************************************************)
(* The request each tool awaits: client method, f-string path, params.     *)
(***************************************************************************)
get_execution_logs_request(a) ==
    client_get("/logs/" \o a.execution_id,
               get_execution_logs_params(a.min_level, a.task_run_id, a.task_id,
                                         a.attempt))

\* a variant of download_execution_logs_request: the path of get_execution_logs
download_execution_logs_request_NoSuffix(a) ==
    client_get("/logs/" \o a.execution_id,
               download_execution_logs_params(a.min_level, a.task_run_id, a.task_id,
                                              a.attempt))

download_execution_logs_request(a) ==
    client_get("/logs/" \o a.execution_id \o "/download",
               download_execution_logs_params(a.min_level, a.task_run_id, a.task_id,
                                              a.attempt))

search_logs_request(a) ==
    client_get("/logs/search",
               search_logs_params(a.query, a.namespace, a.flow_id, a.min_level,
                                  a.start_date, a.end_date,
                                  Default(a.page, DefaultPage),
                                  Default(a.size, DefaultSize)))

delete_execution_logs_request(a) ==
    client_delete("/logs/" \o a.execution_id,
                  delete_execution_logs_params(a.min_level, a.task_run_id, a.task_id,
                                               a.attempt))

delete_flow_logs_request(a) ==
    client_delete("/logs/" \o a.namespace \o "/" \o a.flow_id,
                  delete_flow_logs_params(a.trigger_id))

follow_execution_logs_request(a) ==
    client_get("/logs/" \o a.execution_id \o "/follow",
               follow_execution_logs_params(a.min_level))

(***************************************************************************)
(* State changes shared by the tools.                                      *)
(***************************************************************************)
NoCall == [tool |-> "none"]
NoReply == [kind |-> "none"]

\* the framework calls a registered tool with the caller's arguments
Enter(c, tool, a) ==
    /\ tool \in tools
    /\ pc[c] = "idle"
    /\ call' = [call EXCEPT ![c] = [tool |-> tool, args |-> a]]
    /\ UNCHANGED tools

\* `raise ValueError(...)` before anything was sent
RaiseEarly(c, e) ==
    /\ pc' = [pc EXCEPT ![c] = "done"]
    /\ outcome' = [outcome EXCEPT ![c] = Raised(e)]
    /\ UNCHANGED <<sent, response>>

\* a variant of Await: `params` is one mapping kept outside the coroutines, so
\* the keys another invocation in flight has put there go out as well
Await_SharedParams(c, req) ==
    /\ pc' = [pc EXCEPT ![c] = "awaiting"]
    /\ LET others == {d \in Calls \ {c} : sent[d] # <<>>}
           left   == IF others = {} THEN EmptyDict
                     ELSE sent[CHOOSE d \in others : TRUE][1].params
           shared == [k \in DOMAIN req.params \cup DOMAIN left |->
                        IF k \in DOMAIN req.params THEN req.params[k] ELSE left[k]]
       IN  sent' = [sent EXCEPT ![c] = Append(@, [req EXCEPT !.params = shared])]
    /\ UNCHANGED <<response, outcome>>

\* `await client.get(...)` / `await client.delete(...)`: the request goes out
\* and the coroutine is suspended
Await(c, req) ==
    /\ pc' = [pc EXCEPT ![c] = "awaiting"]
    /\ sent' = [sent EXCEPT ![c] = Append(@, req)]
    /\ UNCHANGED <<response, outcome>>

\* a variant of Resume: a failed request is sent once more before giving up
Resume_Retry(c, reply, result) ==
    /\ pc[c] = "awaiting"
    /\ response' = [response EXCEPT ![c] = reply]
    /\ IF result.kind = "raised" /\ Len(sent[c]) < 2
       THEN /\ sent' = [sent EXCEPT ![c] = Append(@, @[1])]
            /\ UNCHANGED <<pc, outcome>>
       ELSE /\ pc' = [pc EXCEPT ![c] = "done"]
            /\ outcome' = [outcome EXCEPT ![c] = result]
            /\ UNCHANGED sent
    /\ UNCHANGED <<tools, call>>

\* the suspended coroutine is resumed with the reply and runs to its end
Resume(c, reply, result) ==
    /\ pc[c] = "awaiting"
    /\ pc' = [pc EXCEPT ![c] = "done"]
    /\ response' = [response EXCEPT ![c] = reply]
    /\ outcome' = [outcome EXCEPT ![c] = result]
    /\ UNCHANGED <<tools, call, sent>>

(***************************************************************************)
(* register_logs_tools and the six tools.                                  *)
(***************************************************************************)
LogsTools ==
    {"get_execution_logs", "download_execution_logs", "search_logs",
     "delete_execution_logs", "delete_flow_logs", "follow_execution_logs"}

register_logs_tools ==
    /\ tools = {}
    /\ tools' = tools \cup LogsTools
    /\ UNCHANGED <<pc, call, sent, response, outcome>>

get_execution_logs(c, a) ==
    /\ Enter(c, "get_execution_logs", a)
    /\ IF InvalidLevel(a.min_level)
       THEN \E order \in IterationOrders :
                RaiseEarly(c, ValueError(a.min_level, order))
       ELSE Await(c, get_execution_logs_request(a))

get_execution_logs_resumed(c, reply) ==
    /\ call[c].tool = "get_execution_logs"
    /\ Resume(c, reply, AfterAwait(reply, json(reply)))

download_execution_logs(c, a) ==
    /\ Enter(c, "download_execution_logs", a)
    /\ IF InvalidLevel(a.min_level)
       THEN \E order \in IterationOrders :
                RaiseEarly(c, ValueError(a.min_level, order))
       ELSE Await(c, download_execution_logs_request(a))

download_execution_logs_resumed(c, reply) ==
    /\ call[c].tool = "download_execution_logs"
    /\ Resume(c, reply, AfterAwait(reply, text(reply)))

search_logs(c, a) ==
    /\ Enter(c, "search_logs", a)
    /\ IF InvalidLevel(a.min_level)
       THEN \E order \in IterationOrders :
                RaiseEarly(c, ValueError(a.min_level, order))
       ELSE Await(c, search_logs_request(a))

search_logs_resumed(c, reply) ==
    /\ call[c].tool = "search_logs"
    /\ Resume(c, reply, AfterAwait(reply, json(reply)))

delete_execution_logs(c, a) ==
    /\ Enter(c, "delete_execution_logs", a)
    /\ IF InvalidLevel(a.min_level)
       THEN \E order \in IterationOrders :
                RaiseEarly(c, ValueError(a.min_level, order))
       ELSE Await(c, delete_execution_logs_request(a))

delete_execution_logs_resumed(c, reply) ==
    /\ call[c].tool = "delete_execution_logs"
    /\ Resume(c, reply, AfterAwait(reply, json_or_deleted(reply)))

delete_flow_logs(c, a) ==
    /\ Enter(c, "delete_flow_logs", a)
    /\ Await(c, delete_flow_logs_request(a))

delete_flow_logs_resumed(c, reply) ==
    /\ call[c].tool = "delete_flow_logs"
    /\ Resume(c, reply, AfterAwait(reply, json_or_deleted(reply)))

follow_execution_logs(c, a) ==
    /\ Enter(c, "follow_execution_logs", a)
    /\ IF InvalidLevel(a.min_level)
       THEN \E order \in IterationOrders :
                RaiseEarly(c, ValueError(a.min_level, order))
       ELSE Await(c, follow_execution_logs_request(a))

follow_execution_logs_resumed(c, reply) ==
    /\ call[c].tool = "follow_execution_logs"
    /\ Resume(c, reply, AfterAwait(reply, text(reply)))

\* the framework hands the outcome to the caller and the coroutine is gone
Finished(c) ==
    /\ pc[c] = "done"
    /\ pc' = [pc EXCEPT ![c] = "idle"]
    /\ call' = [call EXCEPT ![c] = NoCall]
    /\ sent' = [sent EXCEPT ![c] = <<>>]
    /\ response' = [response EXCEPT ![c] = NoReply]
    /\ outcome' = [outcome EXCEPT ![c] = Pending]
    /\ UNCHANGED tools

(***************************************************************************)
(* The specification: the caller invokes the tools one call at a time.     *)
(***************************************************************************)
Init ==
    /\ tools = {}
    /\ pc = [c \in Calls |-> "idle"]
    /\ call = [c \in Calls |-> NoCall]
    /\ sent = [c \in Calls |-> <<>>]
    /\ response = [c \in Calls |-> NoReply]
    /\ outcome = [c \in Calls |-> Pending]

\* no invocation is in progress
NoneInProgress == \A d \in Calls : pc[d] = "idle"

Next ==
    \/ register_logs_tools
    \/ \E c \in Calls : NoneInProgress /\ \E a \in ExecutionArgs : get_execution_logs(c, a)
    \/ \E c \in Calls : NoneInProgress /\ \E a \in ExecutionArgs : download_execution_logs(c, a)
    \/ \E c \in Calls : NoneInProgress /\ \E a \in SearchArgs : search_logs(c, a)
    \/ \E c \in Calls : NoneInProgress /\ \E a \in ExecutionArgs : delete_execution_logs(c, a)
    \/ \E c \in Calls : NoneInProgress /\ \E a \in FlowArgs : delete_flow_logs(c, a)
    \/ \E c \in Calls : NoneInProgress /\ \E a \in FollowArgs : follow_execution_logs(c, a)
    \/ \E c \in Calls, reply \in Replies : get_execution_logs_resumed(c, reply)
    \/ \E c \in Calls, reply \in Replies : download_execution_logs_resumed(c, reply)
    \/ \E c \in Calls, reply \in Replies : search_logs_resumed(c, reply)
    \/ \E c \in Calls, reply \in Replies : delete_execution_logs_resumed(c, reply)
    \/ \E c \in Calls, reply \in Replies : delete_flow_logs_resumed(c, reply)
    \/ \E c \in Calls, reply \in Replies : follow_execution_logs_resumed(c, reply)
    \/ \E c \in Calls : Finished(c)

Spec == Init /\ [][Next]_vars

(***************************************************************************)
(* The tools as coroutines on one event loop.  The framework starts a tool *)
(* call while others are suspended at their await, so the invocations      *)
(* interleave at the awaits; all of them use the one client.  The          *)
(* arguments and the replies are a part of those above.                    *)
(***************************************************************************)
ConcurrentExecutionArgs ==
    { a \in ExecutionArgs :
        /\ a.min_level = Some("INFO")
        /\ a.task_run_id = None /\ a.task_id = None /\ a.attempt = None }

ConcurrentSearchArgs ==
    { a \in SearchArgs :
        /\ a.min_level = None /\ a.query \in {None, Some("hi")}
        /\ a.namespace = None /\ a.flow_id = None
        /\ a.start_date = None /\ a.end_date = None
        /\ a.page = None /\ a.size = None }

ConcurrentFlowArgs ==
    { a \in FlowArgs :
        a.namespace = "n" /\ a.flow_id = "f" /\ a.trigger_id # Some("") }

ConcurrentFollowArgs ==
    { a \in FollowArgs :
        a.execution_id = "abc123" /\ a.min_level \in {Some("INFO"), Some("BOGUS")} }

ConcurrentReplies ==
    { r \in Replies :
        \/ r = TransportFailure
        \/ r.status_code = 200 /\ r.content \in {"", ArrayBody}
        \/ r.status_code = 404 /\ r.content = "" }

NextConcurrent ==
    \/ register_logs_tools
    \/ \E c \in Calls, a \in ConcurrentExecutionArgs : get_execution_logs(c, a)
    \/ \E c \in Calls, a \in ConcurrentExecutionArgs : download_execution_logs(c, a)
    \/ \E c \in Calls, a \in ConcurrentSearchArgs : search_logs(c, a)
    \/ \E c \in Calls, a \in ConcurrentExecutionArgs : delete_execution_logs(c, a)
    \/ \E c \in Calls, a \in ConcurrentFlowArgs : delete_flow_logs(c, a)
    \/ \E c \in Calls, a \in ConcurrentFollowArgs : follow_execution_logs(c, a)
    \/ \E c \in Calls, reply \in ConcurrentReplies : get_execution_logs_resumed(c, reply)
    \/ \E c \in Calls, reply \in ConcurrentReplies : download_execution_logs_resumed(c, reply)
    \/ \E c \in Calls, reply \in ConcurrentReplies : search_logs_resumed(c, reply)
    \/ \E c \in Calls, reply \in ConcurrentReplies : delete_execution_logs_resumed(c, reply)
    \/ \E c \in Calls, reply \in ConcurrentReplies : delete_flow_logs_resumed(c, reply)
    \/ \E c \in Calls, reply \in ConcurrentReplies : follow_execution_logs_resumed(c, reply)
    \/ \E c \in Calls : Finished(c)

SpecConcurrent == Init /\ [][NextConcurrent]_vars

(***************************************************************************)
(* Vocabulary of the properties.                                           *)
(***************************************************************************)
\* the LogLevel enumeration of the specification
LogLevel == {"ERROR", "WARN", "INFO", "DEBUG", "TRACE"}

ExecutionTools ==
    {"get_execution_logs", "download_execution_logs", "delete_execution_logs"}
LevelTools == ExecutionTools \cup {"search_logs", "follow_execution_logs"}
DeleteTools == {"delete_execution_logs", "delete_flow_logs"}

Started(c) == pc[c] # "idle"
Requested(c) == sent[c] # <<>>
Args(c) == call[c].args
Params(c) == sent[c][1].params
Answered(c) == pc[c] = "done" /\ response[c].kind = "response"
Success(c) == Answered(c) /\ response[c].status_code \in 200..299

\* the required identifiers of the invocation are not empty
IdentifiersGiven(c) ==
    /\ "execution_id" \in DOMAIN Args(c) => Args(c).execution_id # ""
    /\ call[c].tool = "delete_flow_logs" =>
          (Args(c).namespace # "" /\ Args(c).flow_id # "")

RaisedValueError(c) ==
    /\ outcome[c].kind = "raised"
    /\ outcome[c].error.type = "ValueError"

MessageNames(c, value) ==
    \E i \in DOMAIN outcome[c].error.message : outcome[c].error.message[i] = value

C2_AttemptIffSupplied ==
    \A c \in Calls :
        (Requested(c) /\ call[c].tool \in ExecutionTools)
        => \A i \in DOMAIN sent[c] :
             LET p == sent[c][i].params
             IN  /\ ("attempt" \in DOMAIN p) <=> (Args(c).attempt # None)
                 /\ (Args(c).attempt # None) => p["attempt"] = Args(c).attempt[1]

C2_Witness ==
    \E c \in Calls :
        /\ call[c].tool = "delete_execution_logs"
        /\ Args(c).attempt = Some(0)
        /\ Requested(c)
        /\ "attempt" \in DOMAIN Params(c)
        /\ Params(c)["attempt"] = 0

\* C3: every request of search_logs carries page and size; an omitted page
\* is sent as 1 and an omitted size as 25, a supplied one as supplied; with
\* no optional filter the query mapping is exactly {page, size}.
C3_PageAndSizeAlwaysSent ==
    \A c \in Calls :
        (Requested(c) /\ call[c].tool = "search_logs")
        => \A i \in DOMAIN sent[c] :
             LET p == sent[c][i].params
                 a == Args(c)
             IN  /\ {"page", "size"} \subseteq DOMAIN p
                 /\ p["page"] = (IF a.page = None THEN 1 ELSE a.page[1])
                 /\ p["size"] = (IF a.size = None THEN 25 ELSE a.size[1])
                 /\ ( /\ a.query = None /\ a.namespace = None /\ a.flow_id = None
                      /\ a.min_level = None /\ a.start_date = None
                      /\ a.end_date = None )
                    => DOMAIN p = {"page", "size"}

C3_Witness ==
    \E c \in Calls :
        /\ call[c].tool = "search_logs"
        /\ Args(c) = [min_level |-> None, query |-> None, namespace |-> None,
                      flow_id |-> None, start_date |-> None, end_date |-> None,
                      page |-> None, size |-> None]
        /\ Requested(c)
        /\ Params(c) = [page |-> 1, size |-> 25]

\* C4: when delete_execution_logs or delete_flow_logs gets a 2xx answer, an
\* empty body makes it return exactly {"status": "deleted"}; a non-empty
\* body makes it return the decoded JSON body, and never the synthesized
\* confirmation.
C4_DeleteConfirmation ==
    \A c \in Calls :
        (Success(c) /\ call[c].tool \in DeleteTools)
        => LET body == response[c].content
               synthesized ==
                   [kind |-> "returned",
                    value |-> [kind |-> "object", members |-> [status |-> "deleted"]]]
           IN  /\ body = "" => outcome[c] = synthesized
               /\ body # "" => outcome[c] # synthesized
               /\ (body # "" /\ JsonDecode(body).kind # "invalid")
                  => outcome[c] = [kind |-> "returned", value |-> JsonDecode(body)]

C4_Witness ==
    \E c \in Calls :
        /\ Success(c)
        /\ call[c].tool = "delete_flow_logs"
        /\ response[c].content = ""
        /\ outcome[c].kind = "returned"
        /\ outcome[c].value.members = [status |-> "deleted"]

\* the optional string parameters of each tool, each with its backend key
StringKeys(tool) ==
    CASE tool \in ExecutionTools ->
            {<<"min_level", "minLevel">>, <<"task_run_id", "taskRunId">>,
             <<"task_id", "taskId">>}
      [] tool = "search_logs" ->
            {<<"min_level", "minLevel">>, <<"query", "q">>,
             <<"namespace", "namespace">>, <<"flow_id", "flowId">>,
             <<"start_date", "startDate">>, <<"end_date", "endDate">>}
      [] tool = "delete_flow_logs" -> {<<"trigger_id", "triggerId">>}
      [] tool = "follow_execution_logs" -> {<<"min_level", "minLevel">>}

\* the keys of the parameters that are not strings
NumberKeys(tool) ==
    CASE tool \in ExecutionTools -> {"attempt"}
      [] tool = "search_logs" -> {"page", "size"}
      [] OTHER -> {}

\* C5 as stated: a backend key is in the query mapping exactly when the
\* caller gave the parameter any value other than None, the empty string
\* included, with the value unchanged, and no other keys are sent (looked at
\* for invocations whose identifiers are given).
C5_Original ==
    \A c \in Calls :
        (Requested(c) /\ IdentifiersGiven(c))
        => LET p == Params(c)
               t == call[c].tool
           IN  /\ \A fk \in StringKeys(t) :
                     /\ (fk[2] \in DOMAIN p) <=> (Args(c)[fk[1]] # None)
                     /\ (fk[2] \in DOMAIN p) => p[fk[2]] = Args(c)[fk[1]][1]
               /\ DOMAIN p \subseteq {fk[2] : fk \in StringKeys(t)} \cup NumberKeys(t)

\* C5 amended: a backend key is in the query mapping exactly when the caller
\* gave the parameter a non-empty string (None and "" both omit the key),
\* it carries that string unchanged, and no other keys are sent.
C5_KeyIffNonEmpty ==
    \A c \in Calls :
        Requested(c)
        => \A i \in DOMAIN sent[c] :
             LET p == sent[c][i].params
                 t == call[c].tool
             IN  /\ \A fk \in StringKeys(t) :
                       /\ (fk[2] \in DOMAIN p)
                          <=> (Args(c)[fk[1]] # None /\ Args(c)[fk[1]][1] # "")
                       /\ (fk[2] \in DOMAIN p) => p[fk[2]] = Args(c)[fk[1]][1]
                 /\ DOMAIN p \subseteq
                       {fk[2] : fk \in StringKeys(t)} \cup NumberKeys(t)

C5_Witness ==
    \E c \in Calls :
        /\ call[c].tool = "search_logs"
        /\ Requested(c)
        /\ Args(c).query = Some("")
        /\ Args(c).namespace = Some("n")
        /\ Args(c).start_date = None
        /\ "q" \notin DOMAIN Params(c)
        /\ "startDate" \notin DOMAIN Params(c)
        /\ Params(c)["namespace"] = "n"

\* C6 as stated: an invocation with an empty execution_id, or of
\* delete_flow_logs with an empty namespace or flow_id, is rejected and
\* issues no request.
C6_EmptyIdentifierRejected ==
    \A c \in Calls :
        ( /\ Started(c)
          /\ \/ /\ call[c].tool \in ExecutionTools \cup {"follow_execution_logs"}
                /\ Args(c).execution_id = ""
             \/ /\ call[c].tool = "delete_flow_logs"
                /\ (Args(c).namespace = "" \/ Args(c).flow_id = "") )
        => ( /\ sent[c] = <<>>
             /\ pc[c] = "done"
             /\ outcome[c].kind = "raised" )

\* C7: an answer with a non-success status makes the invocation raise, with
\* no result, the same way for every such status; a finished invocation has
\* either returned or raised, an unfinished one neither; and it has returned
\* only if a success status was received.
C7_ErrorStatusRaises ==
    \A c \in Calls :
        /\ pc[c] = "done" <=> outcome[c].kind \in {"returned", "raised"}
        /\ pc[c] # "done" => outcome[c] = [kind |-> "pending"]
        /\ (Answered(c) /\ response[c].status_code \notin 200..299)
           => ( /\ outcome[c].kind = "raised"
                /\ "value" \notin DOMAIN outcome[c]
                /\ outcome[c].error.type = "HTTPStatusError"
                /\ outcome[c].error.status_code = response[c].status_code )
        /\ outcome[c].kind = "returned" => Success(c)

C7_Witness ==
    \E c \in Calls :
        /\ Answered(c)
        /\ call[c].tool = "follow_execution_logs"
        /\ response[c].status_code = 404
        /\ outcome[c].kind = "raised"

\* C8: an invocation that passed validation has issued exactly one request
\* and no invocation more than one; a reply, whatever it is, ends the
\* invocation without another request; and a finished invocation issues
\* nothing.
C8_State ==
    \A c \in Calls :
        /\ Len(sent[c]) <= 1
        /\ pc[c] = "awaiting" => Len(sent[c]) = 1
        /\ (pc[c] = "done" /\ ~ RaisedValueError(c)) => Len(sent[c]) = 1
        /\ (pc[c] = "done" /\ RaisedValueError(c)) => Len(sent[c]) = 0

C8_Step ==
    \A c \in Calls :
        /\ (pc[c] = "awaiting" /\ response'[c] # response[c])
           => (pc'[c] = "done" /\ sent'[c] = sent[c])
        /\ pc[c] = "awaiting" => sent'[c] = sent[c]
        /\ pc[c] = "done" => Len(sent'[c]) <= Len(sent[c])

C8_ExactlyOneRequest == [] C8_State /\ [][C8_Step]_vars

C8_Witness ==
    \E c \in Calls :
        /\ pc[c] = "done"
        /\ call[c].tool = "get_execution_logs"
        /\ response[c] = [kind |-> "transport_error"]
        /\ outcome[c].kind = "raised"
        /\ Len(sent[c]) = 1

\* the method and path each tool is to use
EndpointOf(tool, a) ==
    CASE tool = "get_execution_logs" -> <<"GET", "/logs/" \o a.execution_id>>
      [] tool = "download_execution_logs" ->
            <<"GET", "/logs/" \o a.execution_id \o "/download">>
      [] tool = "search_logs" -> <<"GET", "/logs/search">>
      [] tool = "delete_execution_logs" -> <<"DELETE", "/logs/" \o a.execution_id>>
      [] tool = "delete_flow_logs" ->
            <<"DELETE", "/logs/" \o a.namespace \o "/" \o a.flow_id>>
      [] tool = "follow_execution_logs" ->
            <<"GET", "/logs/" \o a.execution_id \o "/follow">>

\* C9: once register_logs_tools has run, all six tools are available; every
\* request uses the method and path of its tool; a DELETE comes only from
\* the two delete tools.
C9_ToolsAndEndpoints ==
    /\ tools # {} =>
          {"get_execution_logs", "download_execution_logs", "search_logs",
           "delete_execution_logs", "delete_flow_logs", "follow_execution_logs"}
          \subseteq tools
    /\ \A c \in Calls :
          /\ Started(c) => call[c].tool \in tools
          /\ \A i \in DOMAIN sent[c] :
                /\ <<sent[c][i].method, sent[c][i].path>>
                      = EndpointOf(call[c].tool, Args(c))
                /\ sent[c][i].method = "DELETE" =>
                      call[c].tool \in {"delete_execution_logs", "delete_flow_logs"}

C9_Witness ==
    \E c \in Calls :
        /\ call[c].tool = "download_execution_logs"
        /\ Requested(c)
        /\ sent[c][1].method = "GET"
        /\ sent[c][1].path = "/logs/abc123/download"

MessageText(c) == join("", outcome[c].error.message)

\* C11: an invocation that fails validation carries the message
\* "Invalid min_level '<value>'. Must be one of: DEBUG, ERROR, INFO, TRACE,
\* WARN": the five levels ascending and comma-joined, the same text in every
\* tool that validates min_level, whatever order the set was iterated in.
C11_MessageText ==
    \A c \in Calls :
        RaisedValueError(c)
        => /\ call[c].tool \in LevelTools
           /\ Len(outcome[c].error.message) = 4
           /\ outcome[c].error.message[4] = "DEBUG, ERROR, INFO, TRACE, WARN"
           /\ MessageText(c)
                 = "Invalid min_level '" \o Args(c).min_level[1]
                     \o "'. Must be one of: DEBUG, ERROR, INFO, TRACE, WARN"

C11_Witness ==
    \E c \in Calls :
        /\ call[c].tool = "follow_execution_logs"
        /\ Args(c).min_level = Some("BOGUS")
        /\ RaisedValueError(c)
        /\ MessageText(c)
              = "Invalid min_level 'BOGUS'. Must be one of: DEBUG, ERROR, INFO, TRACE, WARN"

\* what each tool sends for its arguments, and what it makes of a reply
RequestOf(tool, a) ==
    CASE tool = "get_execution_logs"      -> get_execution_logs_request(a)
      [] tool = "download_execution_logs" -> download_execution_logs_request(a)
      [] tool = "search_logs"             -> search_logs_request(a)
      [] tool = "delete_execution_logs"   -> delete_execution_logs_request(a)
      [] tool = "delete_flow_logs"        -> delete_flow_logs_request(a)
      [] tool = "follow_execution_logs"   -> follow_execution_logs_request(a)

ResultOf(tool, reply) ==
    AfterAwait(reply,
        CASE tool \in {"get_execution_logs", "search_logs"} -> json(reply)
          [] tool \in {"download_execution_logs", "follow_execution_logs"} -> text(reply)
          [] tool \in DeleteTools -> json_or_deleted(reply))

\* everything the model keeps for one invocation
Slot(c) == <<pc[c], call[c], sent[c], response[c], outcome[c]>>

\* the request of an invocation is the one its own arguments give, and its
\* result the one its own reply gives
C12_State ==
    \A c \in Calls :
        /\ Requested(c) => sent[c] = <<RequestOf(call[c].tool, Args(c))>>
        /\ (pc[c] = "done" /\ Requested(c))
              => outcome[c] = ResultOf(call[c].tool, response[c])
        /\ (pc[c] = "done" /\ ~ Requested(c))
              => /\ RaisedValueError(c)
                 /\ outcome[c].error.message[2] = Args(c).min_level[1]
                 /\ response[c] = NoReply

\* a step is a step of one invocation and leaves the others as they are
C12_Step ==
    \A c, d \in Calls :
        (c # d /\ Slot(c)' # Slot(c)) => Slot(d)' = Slot(d)

\* C12: with two or more invocations in flight on the one client, under
\* every interleaving each invocation's request (method, path, query
\* mapping) follows from its own arguments alone and its result from the
\* reply to its own request alone, and no step of one invocation changes
\* anything of another.
C12_Independent == [] C12_State /\ [][C12_Step]_vars

\* two invocations of get_execution_logs for different executions are
\* suspended at their await at once
C12_Witness ==
    \E c, d \in Calls :
        /\ pc[c] = "awaiting" /\ pc[d] = "awaiting"
        /\ call[c].tool = "get_execution_logs"
        /\ call[d].tool = "get_execution_logs"
        /\ Args(c).execution_id # Args(d).execution_id
        /\ sent[c] # sent[d]

====
